---- MODULE Spec2Model ----
(***************************************************************************)
(* The asynchronous upload pipeline of lib/aio: the ChunkedUploader with   *)
(* its Index and Destination (s3streamer.py), the HttpQueue consumer       *)
(* (httpqueue.py) and the AsyncQueue underneath it (util.py).              *)
(*                                                                         *)
(* A byte string is a sequence of atoms.  An atom >= 0 is one byte with    *)
(* that value.  The atom -1 stands for a run of 600000 equal ASCII bytes   *)
(* (a large log write); it is never split, because the code only ever      *)
(* concatenates what it is given.  A str is a sequence of code points,     *)
(* with the same run atom.                                                 *)
(***************************************************************************)
EXTENDS Integers, Sequences, FiniteSets, TLC

VARIABLES
    \* ChunkedUploader
    chunks,      \* list[list[bytes]]
    pending,     \* bytes
    timer,       \* <<>> is None; <<n>> is a TimerHandle due in n seconds
    live,        \* TimerHandles the event loop holds, neither cancelled nor run
    flushes,     \* send_pending calls made so far
    suffixes,    \* set of suffixes of the artifacts written so far
    decoder,     \* the incremental decoder's buffered, incomplete input bytes
    phase,       \* "new", "running", or "final" once write(final=True) ran
    \* Index
    files, dirty,
    \* Destination
    kind,        \* "local" (LocalDestination) or "s3" (S3Destination)
    store,       \* the destination's objects: name -> content
    \* HttpQueue and its AsyncQueue
    queue,       \* the deque of HttpRequest
    nonempty,    \* AsyncQueue._nonempty (asyncio.Event)
    eof,         \* AsyncQueue._eof
    task,        \* run_queue: "none", "next", "http", "sleep", "finished", "failed"
    cur,         \* run_queue's local `request`: <<>> or <<r>>
    level,       \* HttpQueue._level
    scope,       \* "out", "in", "exiting" (__aexit__ awaits the task), "exited", "raised"
    sleepLeft,   \* seconds left of asyncio.sleep(1.0)
    \* History
    started,     \* <<>> or <<text>>: the str given to start
    rawInput,    \* every byte given to write, in call order
    nextId,      \* identity of the next HttpRequest object
    issued,      \* the requests whose HTTP call was started, in order
    responded,   \* number of HTTP calls whose response completed
    elapsed,     \* seconds since the last response completed, capped at 1
    seen,        \* names of the objects ever stored in the destination
    atExit,      \* the ids that were in the queue when __aexit__ began
    errors,      \* number of HTTP calls that raised
    callsLeft,   \* calls the owner of the uploader may still make
    enqLeft,     \* requests the other producers may still enqueue
    \* LRUCache and GitHub
    cache,       \* the dict, as its items in iteration order
    max_items,   \* LRUCache.max_items
    getting,     \* the GitHub.get calls awaiting their response
    posting,     \* number of GitHub.post calls awaiting their response
    overlap,     \* how many get calls their callers run at a time
    history,     \* the add and get calls made on the cache, in order
    returned,    \* what the completed GitHub.get calls returned, in order
    apiLeft      \* cache or API calls that may still be made

vars == <<chunks, pending, timer, live, flushes, suffixes, decoder, phase, files, dirty, kind,
          store, queue, nonempty, eof, task, cur, level, scope, sleepLeft,
          started, rawInput, nextId, issued, responded, elapsed, seen, atExit,
          errors, callsLeft, enqLeft,
          cache, max_items, getting, posting, overlap, history, returned, apiLeft>>

uploaderVars == <<chunks, pending, timer, live, flushes, suffixes, decoder, phase, files, dirty,
                  started, rawInput, callsLeft>>
apiVars == <<cache, max_items, getting, posting, overlap, history, returned, apiLeft>>
consumerVars == <<task, cur, level, scope, sleepLeft, eof, issued, responded,
                  elapsed, atExit, errors>>

----------------------------------------------------------------------------
(* Bounds of the environment *)

\* non-final write and send_pending calls on an uploader over a local destination
MaxCalls == 4
\* non-final write and send_pending calls on an uploader over the S3 destination
MaxS3Calls == 2
\* requests enqueued by other producers of the HttpQueue
MaxEnqueue == 3
\* write, send_pending and sync calls of the owner of an Index and its uploader
MaxIndexCalls == 2
\* largest max_items of an LRUCache, and the add and get calls made on it
MaxItems == 2
MaxCacheOps == 4
\* GitHub.get calls
MaxGets == 3
\* get calls made on a client that lets two of them overlap
MaxOverlapGets == 2

(* Program constants *)
SIZE_LIMIT == 1000000
TIME_LIMIT == 30
\* LRUCache.__init__(max_items=128)
DefaultMaxItems == 128

\* The run atom and the byte strings a caller writes: a large ASCII block, a
\* two-byte lead byte (0xC3) and a continuation byte (0xA9), so that a
\* character split across writes, a stray continuation and a truncated
\* character all occur.
BigBlock == <<-1>>
WriteData == {BigBlock, <<195>>, <<169>>}
\* The final write gives nothing (which truncates a character still held by
\* the decoder) or the continuation byte (which completes it, or is stray).
FinalData == {<<>>, <<169>>}
\* The texts given to start: "" and "é".
StartTexts == {<<>>, <<233>>}
\* The files of the bundled s3-html directory.
AssetFiles == {"log.html"}
\* The attachments other users of the Index write.
IndexFiles == {"Test.png", "log.html"}
\* The keys and values the users of an LRUCache give it.
CacheKeys == {"k1", "k2", "k3"}
CacheValues == {"v1", "v2"}
\* The reducers and the cache keys (resource, reducer) of the GitHub.get calls.
Reducers == {"first", "count"}
GetKeys == {<<"pulls", r>> : r \in Reducers}
\* What the server answers: the headers of a response (with ETag and
\* Last-Modified, with another ETag only, with neither), and the statuses
\* with the JSON bodies that come with them.
ResponseHeaders ==
    { [h \in {"content-type", "etag", "last-modified"} |->
          IF h = "etag" THEN "e1" ELSE IF h = "last-modified" THEN "t1" ELSE "json"],
      [h \in {"content-type", "etag"} |-> IF h = "etag" THEN "e2" ELSE "json"],
      [h \in {"content-type"} |-> "json"] }
Responses ==
    [status : {200, 201}, headers : ResponseHeaders, body : {<<1, 2>>, <<2>>}]
    \cup [status : {304, 404}, headers : ResponseHeaders, body : {<<>>}]

----------------------------------------------------------------------------
(* bytes and str *)

AtomLen(a) == IF a < 0 THEN 600000 ELSE 1

RECURSIVE ByteLen(_)
ByteLen(s) == IF s = <<>> THEN 0 ELSE AtomLen(Head(s)) + ByteLen(Tail(s))

RECURSIVE Join(_)
\* b''.join(blocks)
Join(blocks) == IF blocks = <<>> THEN <<>> ELSE Head(blocks) \o Join(Tail(blocks))

RECURSIVE SumSeq(_)
SumSeq(ns) == IF ns = <<>> THEN 0 ELSE Head(ns) + SumSeq(Tail(ns))

\* U+FFFD, what errors='replace' puts for undecodable input
Replacement == 65533

IsAscii(b) == b < 128
IsContinuation(b) == b >= 128 /\ b <= 191
IsLead2(b) == b >= 194 /\ b <= 223

\* str.encode('utf-8') of one code point
EncodeChar(c) ==
    IF c < 128 THEN <<c>>
    ELSE IF c < 2048 THEN <<192 + (c \div 64), 128 + (c % 64)>>
    ELSE <<224 + (c \div 4096), 128 + ((c \div 64) % 64), 128 + (c % 64)>>

RECURSIVE Encode(_)
Encode(text) == IF text = <<>> THEN <<>> ELSE EncodeChar(Head(text)) \o Encode(Tail(text))

RECURSIVE Decode(_, _)
\* IncrementalDecoder('UTF-8', errors='replace').decode over the buffered
\* bytes followed by the new ones: the decoded str and the bytes kept back.
Decode(s, final) ==
    IF s = <<>> THEN [out |-> <<>>, rest |-> <<>>]
    ELSE LET h == Head(s) IN
         IF IsAscii(h)
         THEN LET r == Decode(Tail(s), final) IN [out |-> <<h>> \o r.out, rest |-> r.rest]
         ELSE IF IsLead2(h) /\ Len(s) = 1
         THEN IF final THEN [out |-> <<Replacement>>, rest |-> <<>>]
                       ELSE [out |-> <<>>, rest |-> s]
         ELSE IF IsLead2(h) /\ IsContinuation(s[2])
         THEN LET r == Decode(Tail(Tail(s)), final) IN
              [out |-> <<(h - 192) * 64 + (s[2] - 128)>> \o r.out, rest |-> r.rest]
         ELSE LET r == Decode(Tail(s), final) IN
              [out |-> <<Replacement>> \o r.out, rest |-> r.rest]

----------------------------------------------------------------------------
(* Names and contents of the destination's objects *)

LogName == [kind |-> "final", lo |-> 0, hi |-> 0, file |-> "log"]
ChunksSuffix == [kind |-> "chunks", lo |-> 0, hi |-> 0]
RangeSuffix(lo, hi) == [kind |-> "range", lo |-> lo, hi |-> hi]
\* f'{self.filename}.{suffix}'
Suffixed(sfx) == [kind |-> sfx.kind, lo |-> sfx.lo, hi |-> sfx.hi, file |-> "log"]
FileName(f) == [kind |-> "file", lo |-> 0, hi |-> 0, file |-> f]

Bytes(b) == [type |-> "bytes", val |-> b]
\* json.dumps(chunk_sizes).encode('ascii'): the array of integers
Json(ns) == [type |-> "json", val |-> ns]

\* Destination.write(filename, data) and Destination.delete(filenames)
WriteOp(name, data) == [op |-> "write", name |-> name, data |-> data, names |-> {}]
DeleteOp(names) == [op |-> "delete", name |-> LogName, data |-> Bytes(<<>>), names |-> names]

Put(st, name, data) == [n \in DOMAIN st \cup {name} |-> IF n = name THEN data ELSE st[n]]
Remove(st, name) == [n \in DOMAIN st \ {name} |-> st[n]]

RECURSIVE Perms(_)
\* the orders in which a set may be iterated
Perms(S) == IF S = {} THEN {<<>>}
            ELSE UNION {{<<x>> \o p : p \in Perms(S \ {x})} : x \in S}


----------------------------------------------------------------------------
(* LocalDestination *)

\* LocalDestination.write: create or truncate the file
LocalWrite(st, name, data) == Put(st, name, data)

\* LocalDestination.delete: unlink every file named (the result does not
\* depend on the order of the loop)
LocalDelete(st, names) == [n \in DOMAIN st \ names |-> st[n]]

RECURSIVE LocalApply(_, _)
LocalApply(st, ops) ==
    IF ops = <<>> THEN st
    ELSE LET o == Head(ops) IN
         LocalApply(IF o.op = "write" THEN LocalWrite(st, o.name, o.data)
                                      ELSE LocalDelete(st, o.names),
                    Tail(ops))

RECURSIVE WrittenNames(_)
WrittenNames(ops) ==
    IF ops = <<>> THEN {}
    ELSE (IF Head(ops).op = "write" THEN {Head(ops).name} ELSE {}) \cup WrittenNames(Tail(ops))

----------------------------------------------------------------------------
(* HttpRequest, HttpQueue producers, AsyncQueue *)

HttpRequest(method, url, data, s3) ==
    [method |-> method, url |-> url, data |-> data, s3 |-> s3, id |-> 0]

\* HttpQueue.s3_put, HttpQueue.s3_delete, HttpQueue.post
S3PutRequest(url, body) == HttpRequest("PUT", url, body, TRUE)
S3DeleteRequest(url) == HttpRequest("DELETE", url, Bytes(<<>>), TRUE)
PostRequest(url, body) == HttpRequest("POST", url, body, FALSE)

\* mutant: appendleft instead of append
QueuePutLeft(q, item) == <<item>> \o q

\* AsyncQueue.put: self.append(item)
QueuePut(q, item) == Append(q, item)

\* mutant: self[-1] instead of self[0]
QueueLast(q) == q[Len(q)]

\* AsyncQueue.next: self[0]
QueueHead(q) == q[1]

\* AsyncQueue.done: self.popleft()
QueuePopLeft(q) == Tail(q)

\* mutant: the flag is cleared at end-of-stream too
ClearedIgnoringEof(q, e, flag) == IF q = <<>> THEN FALSE ELSE flag

\* AsyncQueue.done: `if not self and not self._eof: self._nonempty.clear()`,
\* on the deque q after the pop
Cleared(q, e, flag) == IF q = <<>> /\ ~e THEN FALSE ELSE flag

RECURSIVE PutAll(_, _, _)
\* successive HttpQueue.request calls; each request is a new object
PutAll(q, reqs, id) ==
    IF reqs = <<>> THEN q
    ELSE PutAll(QueuePut(q, [Head(reqs) EXCEPT !.id = id]), Tail(reqs), id + 1)

\* S3Destination.write: one signed PUT
S3WriteRequests(name, data) == {<<S3PutRequest(name, data)>>}

\* S3Destination.delete: one signed DELETE per name, in the order in which
\* the collection is iterated
S3DeleteRequests(names) ==
    {[i \in 1..Len(p) |-> S3DeleteRequest(p[i])] : p \in Perms(names)}

RECURSIVE S3Requests(_)
S3Requests(ops) ==
    IF ops = <<>> THEN {<<>>}
    ELSE LET o == Head(ops)
             first == IF o.op = "write" THEN S3WriteRequests(o.name, o.data)
                                        ELSE S3DeleteRequests(o.names)
         IN  {a \o b : a \in first, b \in S3Requests(Tail(ops))}

\* The calls a handler makes on self.destination, in order.
Destination(ops) ==
    IF kind = "local"
    THEN /\ store' = LocalApply(store, ops)
         /\ seen' = seen \cup WrittenNames(ops)
         /\ UNCHANGED <<queue, nonempty, nextId>>
    ELSE /\ \E reqs \in S3Requests(ops) :
               /\ queue' = PutAll(queue, reqs, nextId)
               /\ nextId' = nextId + Len(reqs)
               /\ nonempty' = (nonempty \/ reqs # <<>>)
         /\ UNCHANGED <<store, seen>>

----------------------------------------------------------------------------
(* ChunkedUploader *)

RECURSIVE MergeSwapped(_)
\* mutant: last + second_last instead of second_last + last
MergeSwapped(cs) ==
    IF Len(cs) > 1 /\ Len(cs[Len(cs)]) = Len(cs[Len(cs) - 1])
    THEN MergeSwapped(Append(SubSeq(cs, 1, Len(cs) - 2), cs[Len(cs)] \o cs[Len(cs) - 1]))
    ELSE cs

\* mutant: `if` instead of `while`
MergeOnce(cs) ==
    IF Len(cs) > 1 /\ Len(cs[Len(cs)]) = Len(cs[Len(cs) - 1])
    THEN Append(SubSeq(cs, 1, Len(cs) - 2), cs[Len(cs) - 1] \o cs[Len(cs)])
    ELSE cs

\* mutant: no merge at all
MergeNever(cs) == cs

RECURSIVE MergeBySize(_)
\* mutant: the bytes of the last two chunks are compared, not their blocks
MergeBySize(cs) ==
    IF Len(cs) > 1 /\ ByteLen(Join(cs[Len(cs)])) = ByteLen(Join(cs[Len(cs) - 1]))
    THEN MergeBySize(Append(SubSeq(cs, 1, Len(cs) - 2), cs[Len(cs) - 1] \o cs[Len(cs)]))
    ELSE cs

RECURSIVE Merge2048(_)
\* the while loop of send_pending
Merge2048(cs) ==
    IF Len(cs) > 1 /\ Len(cs[Len(cs)]) = Len(cs[Len(cs) - 1])
    THEN Merge2048(Append(SubSeq(cs, 1, Len(cs) - 2), cs[Len(cs) - 1] \o cs[Len(cs)]))
    ELSE cs

\* chunk_sizes
ChunkSizes(cs) == [i \in 1..Len(cs) |-> ByteLen(Join(cs[i]))]

\* last_chunk_suffix
LastChunkSuffix(cs) ==
    LET sizes == ChunkSizes(cs)
        start == SumSeq(SubSeq(sizes, 1, Len(sizes) - 1))
    IN  RangeSuffix(start, start + sizes[Len(sizes)])

\* mutant: the manifest is written before the range artifact
SendPendingWritesManifestFirst(cs) ==
    <<WriteOp(Suffixed(ChunksSuffix), Json(ChunkSizes(cs))),
      WriteOp(Suffixed(LastChunkSuffix(cs)), Bytes(Join(cs[Len(cs)])))>>

\* the two destination writes of send_pending
SendPendingWrites(cs) ==
    <<WriteOp(Suffixed(LastChunkSuffix(cs)), Bytes(Join(cs[Len(cs)]))),
      WriteOp(Suffixed(ChunksSuffix), Json(ChunkSizes(cs)))>>

\* clear_timer: self.timer.cancel() takes the handle from the event loop; in
\* send_pending run by the handle itself, the handle has left the loop by
\* running and cancel() changes nothing
Cancelled(t, n) == IF t = <<>> THEN n ELSE n - 1

\* mutant: call_later whether or not a timer is set
TimerIsNoneIgnored(t) == TRUE

\* mutant: no timer is ever set
TimerIsNoneNever(t) == FALSE

\* write: `elif self.timer is None`
TimerIsNone(t) == t = <<>>

\* send_pending with self.pending = pend, followed by the destination calls
\* `more` of the same handler
Flush(pend, more) ==
    \E cs \in {Merge2048(Append(chunks, <<pend>>))} :
    /\ chunks' = cs
    /\ pending' = <<>>
    /\ timer' = <<>>
    /\ live' = Cancelled(timer, live)
    /\ flushes' = flushes + 1
    /\ suffixes' = suffixes \cup {LastChunkSuffix(cs)}
    /\ \E ops \in {SendPendingWrites(cs) \o more} : Destination(ops)

\* everything
Everything(cs, pend) == Join([i \in 1..Len(cs) |-> Join(cs[i])]) \o pend

\* mutant: only the manifest and the ranges it names are deleted
FinalDeletesCurrent(sfx) ==
    {Suffixed(ChunksSuffix)}
    \cup {Suffixed(LastChunkSuffix(SubSeq(chunks, 1, i))) : i \in 1..Len(chunks)}

\* the names deleted at finalization
FinalDeletes(sfx) == {Suffixed(s) : s \in sfx}

\* mutant: the artifacts are deleted before the final object is written
FinalCallsDeleteFirst(cs, pend, sfx) ==
    <<DeleteOp(FinalDeletes(sfx)), WriteOp(LogName, Bytes(Everything(cs, pend)))>>

\* the destination calls of write(final=True)
FinalCalls(cs, pend, sfx) ==
    <<WriteOp(LogName, Bytes(Everything(cs, pend))), DeleteOp(FinalDeletes(sfx))>>

\* AttachmentsDirectory.scan through the Index: the files it does not have
ScanNames == {FileName(f) : f \in AssetFiles} \ files

AssetData(name) == Bytes(<<104>>)

\* ChunkedUploader.start
Start ==
    /\ phase = "new"
    /\ \E text \in StartTexts :
         /\ started' = <<text>>
         /\ \E order \in Perms(ScanNames) :
              Flush(Encode(text), [i \in 1..Len(order) |-> WriteOp(order[i], AssetData(order[i]))])
    /\ files' = files \cup ScanNames
    /\ dirty' = (dirty \/ ScanNames # {})
    /\ phase' = "running"
    /\ UNCHANGED <<decoder, rawInput, callsLeft, kind>>
    /\ UNCHANGED consumerVars
    /\ UNCHANGED enqLeft
    /\ UNCHANGED apiVars

\* ChunkedUploader.send_pending, called by the owner of the uploader
SendPending ==
    /\ phase # "final"
    /\ callsLeft > 0
    /\ callsLeft' = callsLeft - 1
    /\ Flush(pending, <<>>)
    /\ phase' = "running"
    /\ UNCHANGED <<decoder, rawInput, started, files, dirty, kind>>
    /\ UNCHANGED consumerVars
    /\ UNCHANGED enqLeft
    /\ UNCHANGED apiVars

\* the TimerHandle of call_later(TIME_LIMIT, self.send_pending) runs
TimerFire ==
    /\ timer = <<0>>
    /\ Flush(pending, <<>>)
    /\ UNCHANGED <<decoder, rawInput, callsLeft, started, files, dirty, kind, phase>>
    /\ UNCHANGED consumerVars
    /\ UNCHANGED enqLeft
    /\ UNCHANGED apiVars

\* ChunkedUploader.write(data, final=False)
Write ==
    /\ phase # "final"
    /\ callsLeft > 0
    /\ callsLeft' = callsLeft - 1
    /\ \E data \in WriteData :
         LET r == Decode(decoder \o data, FALSE)
             pend == pending \o Encode(r.out)
         IN  /\ decoder' = r.rest
             /\ rawInput' = rawInput \o data
             /\ IF pend # <<>> /\ ByteLen(pend) > SIZE_LIMIT
                THEN Flush(pend, <<>>)
                ELSE /\ pending' = pend
                     /\ timer' = IF pend # <<>> /\ TimerIsNone(timer) THEN <<TIME_LIMIT>> ELSE timer
                     /\ live' = IF pend # <<>> /\ TimerIsNone(timer) THEN live + 1 ELSE live
                     /\ UNCHANGED <<chunks, flushes, suffixes>>
                     /\ Destination(<<>>)
    /\ phase' = "running"
    /\ UNCHANGED <<started, files, dirty, kind>>
    /\ UNCHANGED consumerVars
    /\ UNCHANGED enqLeft
    /\ UNCHANGED apiVars

\* ChunkedUploader.write(data, final=True)
WriteFinal ==
    /\ phase # "final"
    /\ \E data \in FinalData :
         LET r == Decode(decoder \o data, TRUE)
             pend == pending \o Encode(r.out)
         IN  /\ decoder' = r.rest
             /\ rawInput' = rawInput \o data
             /\ pending' = pend
             /\ Destination(FinalCalls(chunks, pend, suffixes))
    /\ timer' = <<>>
    /\ live' = Cancelled(timer, live)
    /\ files' = files \cup {LogName}
    /\ dirty' = TRUE
    /\ phase' = "final"
    /\ UNCHANGED <<chunks, flushes, suffixes, callsLeft, started, kind>>
    /\ UNCHANGED consumerVars
    /\ UNCHANGED enqLeft
    /\ UNCHANGED apiVars

----------------------------------------------------------------------------
(* Index *)

IndexName == FileName("index.html")

\* the characters of the filenames the Index is given
FileChars(f) ==
    CASE f = "log" -> <<108, 111, 103>>
      [] f = "log.html" -> <<108, 111, 103, 46, 104, 116, 109, 108>>
      [] f = "Test.png" -> <<84, 101, 115, 116, 46, 112, 110, 103>>
      [] f = "index.html" -> <<105, 110, 100, 101, 120, 46, 104, 116, 109, 108>>

RECURSIVE LexLess(_, _)
\* a < b for two str
LexLess(a, b) ==
    IF b = <<>> THEN FALSE
    ELSE IF a = <<>> THEN TRUE
    ELSE IF Head(a) # Head(b) THEN Head(a) < Head(b)
    ELSE LexLess(Tail(a), Tail(b))

\* mutant: sorted(self.files, reverse=True)
SortedDescending(S) ==
    CHOOSE p \in Perms(S) :
        \A i \in 1..(Len(p) - 1) : LexLess(FileChars(p[i + 1].file), FileChars(p[i].file))

\* sorted(self.files)
Sorted(S) ==
    CHOOSE p \in Perms(S) :
        \A i \in 1..(Len(p) - 1) : LexLess(FileChars(p[i].file), FileChars(p[i + 1].file))

\* the page of sync: one <li><a href=F>F</a></li> per name, in this order
Page(names) == [type |-> "html", val |-> names]

\* Index.write, called by another user of the Index
IndexWrite ==
    /\ callsLeft > 0
    /\ callsLeft' = callsLeft - 1
    /\ \E f \in IndexFiles :
         /\ Destination(<<WriteOp(FileName(f), Bytes(<<104>>))>>)
         /\ files' = files \cup {FileName(f)}
    /\ dirty' = TRUE
    /\ UNCHANGED <<chunks, pending, timer, live, flushes, suffixes, decoder, phase, started, rawInput, kind>>
    /\ UNCHANGED consumerVars
    /\ UNCHANGED enqLeft
    /\ UNCHANGED apiVars

\* Index.sync
Sync ==
    /\ callsLeft > 0
    /\ callsLeft' = callsLeft - 1
    /\ IF dirty THEN Destination(<<WriteOp(IndexName, Page(Sorted(files)))>>)
                ELSE Destination(<<>>)
    /\ dirty' = FALSE
    /\ UNCHANGED <<chunks, pending, timer, live, flushes, suffixes, decoder, phase, files, started,
                   rawInput, kind>>
    /\ UNCHANGED consumerVars
    /\ UNCHANGED enqLeft
    /\ UNCHANGED apiVars

----------------------------------------------------------------------------
(* Time *)

Min(a, b) == IF a < b THEN a ELSE b
Max(a, b) == IF a > b THEN a ELSE b

\* the delays after which the next scheduled callback becomes due
Deadlines ==
    (IF task = "sleep" /\ sleepLeft > 0 THEN {sleepLeft} ELSE {})
    \cup (IF timer # <<>> /\ timer[1] > 0 THEN {timer[1]} ELSE {})

\* d seconds pass
Tick ==
    /\ \E d \in Deadlines :
         /\ sleepLeft' = Max(0, sleepLeft - d)
         /\ timer' = IF timer = <<>> THEN <<>> ELSE <<Max(0, timer[1] - d)>>
         /\ elapsed' = Min(1, elapsed + d)
    /\ UNCHANGED <<chunks, pending, live, flushes, suffixes, decoder, phase, files, dirty, kind,
                   store, queue, nonempty, eof, task, cur, level, scope,
                   started, rawInput, nextId, issued, responded, seen, atExit,
                   errors, callsLeft, enqLeft>>
    /\ UNCHANGED apiVars

----------------------------------------------------------------------------
(* HttpQueue: the scope and the consumer task *)

\* the other producers of the queue
StatusUrl == FileName("statuses")
ObjectUrl == FileName("object")

\* one HttpQueue.request call and the AsyncQueue.put under it
Enqueue(req) ==
    /\ enqLeft > 0
    /\ enqLeft' = enqLeft - 1
    /\ queue' = PutAll(queue, <<req>>, nextId)
    /\ nextId' = nextId + 1
    /\ nonempty' = TRUE
    /\ UNCHANGED <<store, seen, kind>>
    /\ UNCHANGED uploaderVars
    /\ UNCHANGED apiVars
    /\ UNCHANGED consumerVars

\* HttpQueue.post
Post == Enqueue(PostRequest(StatusUrl, Json(<<>>)))

\* HttpQueue.s3_put
S3Put == Enqueue(S3PutRequest(ObjectUrl, Bytes(<<104>>)))

\* HttpQueue.s3_delete
S3Delete == Enqueue(S3DeleteRequest(ObjectUrl))

\* HttpQueue.request with a request built by the caller
Request == Enqueue(HttpRequest("GET", ObjectUrl, Bytes(<<>>), FALSE))

\* HttpQueue.__aenter__
AEnter ==
    /\ scope = "out"
    /\ scope' = "in"
    /\ task' = "next"
    /\ UNCHANGED <<cur, level, sleepLeft, eof, issued, responded, elapsed, atExit, errors>>
    /\ UNCHANGED <<store, seen, kind, queue, nonempty, nextId, enqLeft>>
    /\ UNCHANGED uploaderVars
    /\ UNCHANGED apiVars

\* run_queue: next() returns the head, the request is signed and the HTTP
\* call starts
ConsumerTake ==
    /\ task = "next"
    /\ nonempty
    /\ queue # <<>>
    /\ cur' = <<QueueHead(queue)>>
    /\ issued' = Append(issued, QueueHead(queue))
    /\ task' = "http"
    /\ UNCHANGED <<level, scope, sleepLeft, eof, responded, elapsed, atExit, errors>>
    /\ UNCHANGED <<store, seen, kind, queue, nonempty, nextId, enqLeft>>
    /\ UNCHANGED uploaderVars
    /\ UNCHANGED apiVars

\* run_queue: next() returns None and the loop ends
ConsumerStop ==
    /\ task = "next"
    /\ nonempty
    /\ queue = <<>>
    /\ task' = "finished"
    /\ UNCHANGED <<cur, level, scope, sleepLeft, eof, issued, responded, elapsed, atExit, errors>>
    /\ UNCHANGED <<store, seen, kind, queue, nonempty, nextId, enqLeft>>
    /\ UNCHANGED uploaderVars
    /\ UNCHANGED apiVars

\* what the object store does with a request
Served(st, req) ==
    IF req.method = "PUT" THEN Put(st, req.url, req.data)
    ELSE IF req.method = "DELETE" THEN Remove(st, req.url)
    ELSE st

\* run_queue: the response arrives; asyncio.sleep(1.0) begins
HttpOk ==
    /\ task = "http"
    /\ store' = Served(store, cur[1])
    /\ seen' = seen \cup (IF cur[1].method = "PUT" THEN {cur[1].url} ELSE {})
    /\ responded' = responded + 1
    /\ elapsed' = 0
    /\ sleepLeft' = 1
    /\ task' = "sleep"
    /\ UNCHANGED <<cur, level, scope, eof, issued, atExit, errors>>
    /\ UNCHANGED <<kind, queue, nonempty, nextId, enqLeft>>
    /\ UNCHANGED uploaderVars
    /\ UNCHANGED apiVars

\* mutant: the error is caught and the loop goes on with the same request
HttpFailRetried ==
    /\ task = "http"
    /\ \E served \in BOOLEAN :
         /\ store' = IF served THEN Served(store, cur[1]) ELSE store
         /\ seen' = seen \cup (IF served /\ cur[1].method = "PUT" THEN {cur[1].url} ELSE {})
    /\ task' = "next"
    /\ errors' = errors + 1
    /\ UNCHANGED <<cur, level, scope, sleepLeft, eof, issued, responded, elapsed, atExit>>
    /\ UNCHANGED <<kind, queue, nonempty, nextId, enqLeft>>
    /\ UNCHANGED uploaderVars
    /\ UNCHANGED apiVars

\* run_queue: the HTTP call raises; the store may or may not have served it
HttpFail ==
    /\ task = "http"
    /\ \E served \in BOOLEAN :
         /\ store' = IF served THEN Served(store, cur[1]) ELSE store
         /\ seen' = seen \cup (IF served /\ cur[1].method = "PUT" THEN {cur[1].url} ELSE {})
    /\ task' = "failed"
    /\ errors' = errors + 1
    /\ UNCHANGED <<cur, level, scope, sleepLeft, eof, issued, responded, elapsed, atExit>>
    /\ UNCHANGED <<kind, queue, nonempty, nextId, enqLeft>>
    /\ UNCHANGED uploaderVars
    /\ UNCHANGED apiVars

\* mutant: done() without the sleep
SleepSkipped == TRUE

\* await asyncio.sleep(1.0) has returned
SleepFinished == sleepLeft = 0

\* run_queue: the sleep is over; AsyncQueue.done(request)
SleepWake ==
    /\ task = "sleep"
    /\ SleepFinished
    /\ queue' = QueuePopLeft(queue)
    /\ IF queue # <<>> /\ QueueHead(queue) = cur[1]
       THEN /\ task' = "next"
            /\ nonempty' = Cleared(queue', eof, nonempty)
       ELSE /\ task' = "failed"
            /\ UNCHANGED nonempty
    /\ UNCHANGED <<cur, level, scope, sleepLeft, eof, issued, responded, elapsed, atExit, errors>>
    /\ UNCHANGED <<store, seen, kind, nextId, enqLeft>>
    /\ UNCHANGED uploaderVars
    /\ UNCHANGED apiVars

\* HttpQueue.__aexit__ up to `await self._task`
AExitBegin ==
    /\ scope = "in"
    /\ level' = IF Len(queue) > 0 THEN "INFO" ELSE level
    /\ eof' = TRUE
    /\ nonempty' = TRUE
    /\ atExit' = {queue[i].id : i \in 1..Len(queue)}
    /\ scope' = "exiting"
    /\ UNCHANGED <<task, cur, sleepLeft, issued, responded, elapsed, errors>>
    /\ UNCHANGED <<store, seen, kind, queue, nextId, enqLeft>>
    /\ UNCHANGED uploaderVars
    /\ UNCHANGED apiVars

\* HttpQueue.__aexit__: `await self._task` returns, or raises what the task raised
AExitEnd ==
    /\ scope = "exiting"
    /\ task \in {"finished", "failed"}
    /\ scope' = IF task = "finished" THEN "exited" ELSE "raised"
    /\ UNCHANGED <<task, cur, level, sleepLeft, eof, issued, responded, elapsed, atExit, errors>>
    /\ UNCHANGED <<store, seen, kind, queue, nonempty, nextId, enqLeft>>
    /\ UNCHANGED uploaderVars
    /\ UNCHANGED apiVars

----------------------------------------------------------------------------
(* LRUCache *)

pipelineVars == <<uploaderVars, consumerVars, kind, store, queue, nonempty, nextId,
                  seen, enqLeft>>

Item(k, v) == [key |-> k, value |-> v]

\* the keys of the dict
Keys(c) == {c[i].key : i \in 1..Len(c)}

\* dict.get(key): <<>> is None
DictGet(c, k) ==
    IF k \in Keys(c) THEN <<(CHOOSE i \in 1..Len(c) : c[i].key = k)>> ELSE <<>>

\* dict.pop(key, None)
DictPop(c, k) == SelectSeq(c, LAMBDA it : it.key # k)

\* dict.__setitem__: a key that is there keeps its place
DictSet(c, k, v) ==
    IF k \in Keys(c) THEN [i \in 1..Len(c) |-> IF c[i].key = k THEN Item(k, v) ELSE c[i]]
    ELSE Append(c, Item(k, v))

RECURSIVE Evict(_, _)
\* the while loop of add: pop next(iter(self)) while len(self) > max_items
Evict(c, m) == IF Len(c) > m THEN Evict(Tail(c), m) ELSE c

\* mutant: add without the pop
LruAddInPlace(c, m, k, v) == Evict(DictSet(c, k, v), m)

\* mutant: add leaves a key that is there alone
LruAddIfAbsent(c, m, k, v) == IF k \in Keys(c) THEN c ELSE Evict(Append(c, Item(k, v)), m)

\* LRUCache.add
LruAdd(c, m, k, v) == Evict(DictSet(DictPop(c, k), k, v), m)

\* the value bound to k: <<>> or <<v>>
Lookup(c, k) == IF DictGet(c, k) = <<>> THEN <<>> ELSE <<c[DictGet(c, k)[1]].value>>

\* LRUCache.add called by a user of the cache
CacheAdd ==
    /\ apiLeft > 0
    /\ apiLeft' = apiLeft - 1
    /\ \E k \in CacheKeys, v \in CacheValues :
         /\ cache' = LruAdd(cache, max_items, k, v)
         /\ history' = Append(history, [op |-> "add", key |-> k, value |-> <<v>>])
    /\ UNCHANGED <<max_items, getting, posting, overlap, returned>>
    /\ UNCHANGED pipelineVars

\* LRUCache.get (dict.get) called by a user of the cache
CacheGet ==
    /\ apiLeft > 0
    /\ apiLeft' = apiLeft - 1
    /\ \E k \in CacheKeys :
         history' = Append(history, [op |-> "get", key |-> k, value |-> Lookup(cache, k)])
    /\ UNCHANGED <<cache, max_items, getting, posting, overlap, returned>>
    /\ UNCHANGED pipelineVars

----------------------------------------------------------------------------
(* GitHub *)

\* reducer(await response.json())
Apply(reducer, body) == IF reducer = "first" THEN body[1] ELSE Len(body)

\* condition_map
ConditionMap == [h \in {"etag", "last-modified"} |->
                    IF h = "etag" THEN "if-none-match" ELSE "if-modified-since"]

\* conditions: {c: response.headers[h] for h, c in condition_map.items() if h in response.headers}
Conditions(headers) ==
    [c \in {ConditionMap[h] : h \in DOMAIN ConditionMap \cap DOMAIN headers} |->
        headers[CHOOSE h \in DOMAIN ConditionMap : ConditionMap[h] = c]]

CacheEntry(conditions, value) == [conditions |-> conditions, value |-> value]

\* mutant: status == 200
Is200(status) == status = 200

\* (response.status // 100) == 2
Is2xx(status) == status \div 100 = 2

\* the sequence q without its i-th element
Without(q, i) == SubSeq(q, 1, i - 1) \o SubSeq(q, i + 1, Len(q))

\* GitHub.get up to the await of session.get: the cache is looked up; began is
\* the number of responses processed so far
GetBegin ==
    /\ apiLeft > 0
    /\ Len(getting) < overlap
    /\ apiLeft' = apiLeft - 1
    /\ \E key \in GetKeys :
         /\ getting' = Append(getting, [key |-> key, entry |-> Lookup(cache, key),
                                         began |-> Len(returned)])
         /\ history' = Append(history, [op |-> "get", key |-> key, value |-> Lookup(cache, key)])
    /\ UNCHANGED <<cache, max_items, posting, overlap, returned>>
    /\ UNCHANGED pipelineVars

\* GitHub.get from the response on
GetEnd ==
    /\ \E i \in 1..Len(getting), resp \in Responses :
         LET g == getting[i]
             hit == g.entry # <<>> /\ resp.status = 304
             ok == Is2xx(resp.status)
             value == Apply(g.key[2], resp.body)
             entry == IF hit THEN g.entry[1] ELSE CacheEntry(Conditions(resp.headers), value)
         IN  /\ getting' = Without(getting, i)
             /\ cache' = IF hit \/ ok THEN LruAdd(cache, max_items, g.key, entry) ELSE cache
             /\ history' = IF hit \/ ok
                            THEN Append(history, [op |-> "add", key |-> g.key, value |-> <<entry>>])
                            ELSE history
             /\ returned' = Append(returned,
                    [key |-> g.key, response |-> resp, began |-> g.began,
                     result |-> IF hit THEN <<g.entry[1].value>> ELSE IF ok THEN <<value>> ELSE <<>>,
                     reduced |-> ~hit /\ ok])
    /\ UNCHANGED <<max_items, posting, overlap, apiLeft>>
    /\ UNCHANGED pipelineVars

\* GitHub.get: session.get raises, and so does get
GetError ==
    /\ \E i \in 1..Len(getting) : getting' = Without(getting, i)
    /\ UNCHANGED <<cache, max_items, posting, overlap, history, returned, apiLeft>>
    /\ UNCHANGED pipelineVars

\* GitHub.post up to the await of session.post: the HTTP call starts
GitHubPost ==
    /\ enqLeft > 0
    /\ enqLeft' = enqLeft - 1
    /\ posting' = posting + 1
    /\ issued' = Append(issued, [PostRequest(StatusUrl, Json(<<>>)) EXCEPT !.id = nextId])
    /\ nextId' = nextId + 1
    /\ UNCHANGED <<task, cur, level, scope, sleepLeft, eof, responded, elapsed, atExit, errors>>
    /\ UNCHANGED <<kind, store, queue, nonempty, seen>>
    /\ UNCHANGED <<cache, max_items, getting, overlap, history, returned, apiLeft>>
    /\ UNCHANGED uploaderVars

\* GitHub.post: the response arrives, or session.post raises
GitHubPostDone ==
    /\ posting > 0
    /\ posting' = posting - 1
    /\ \E ok \in BOOLEAN :
         /\ responded' = IF ok THEN responded + 1 ELSE responded
         /\ elapsed' = IF ok THEN 0 ELSE elapsed
    /\ UNCHANGED <<task, cur, level, scope, sleepLeft, eof, issued, atExit, errors>>
    /\ UNCHANGED <<kind, store, queue, nonempty, nextId, seen, enqLeft>>
    /\ UNCHANGED <<cache, max_items, getting, overlap, history, returned, apiLeft>>
    /\ UNCHANGED uploaderVars

----------------------------------------------------------------------------
(* Specifications *)

\* LRUCache.__init__ with max_items in caps, GitHub.__init__
InitApi(caps, o, a) ==
    /\ cache = <<>> /\ max_items \in caps
    /\ getting = <<>> /\ posting = 0 /\ overlap = o
    /\ history = <<>> /\ returned = <<>> /\ apiLeft = a

\* the uploader, its Index and destination, and the HttpQueue
InitPipeline(k, c, e) ==
    /\ chunks = <<>> /\ pending = <<>> /\ timer = <<>> /\ live = 0 /\ flushes = 0
    /\ suffixes = {ChunksSuffix} /\ decoder = <<>> /\ phase = "new"
    /\ files = {} /\ dirty = TRUE
    /\ kind = k /\ store = <<>>
    /\ queue = <<>> /\ nonempty = FALSE /\ eof = FALSE
    /\ task = "none" /\ cur = <<>> /\ level = "DEBUG" /\ scope = "out"
    /\ sleepLeft = 0
    /\ started = <<>> /\ rawInput = <<>> /\ nextId = 1 /\ issued = <<>>
    /\ responded = 0 /\ elapsed = 0 /\ seen = {} /\ atExit = {} /\ errors = 0
    /\ callsLeft = c /\ enqLeft = e

InitWith(k, c, e) == InitPipeline(k, c, e) /\ InitApi({DefaultMaxItems}, 1, 0)

\* A ChunkedUploader over an Index over a LocalDestination
InitLocal == InitWith("local", MaxCalls, 0)
NextLocal == Start \/ Write \/ WriteFinal \/ SendPending \/ TimerFire \/ Tick
SpecLocal == InitLocal /\ [][NextLocal]_vars

\* The same, with time passing and the event loop running the handles that
\* are due
SpecLocalLive == SpecLocal /\ WF_vars(Tick) /\ WF_vars(TimerFire)

\* A ChunkedUploader over an Index over an S3Destination over the HttpQueue
InitS3 == InitWith("s3", MaxS3Calls, 0)
NextS3 ==
    \/ Start \/ Write \/ WriteFinal \/ SendPending \/ TimerFire \/ Tick
    \/ AEnter \/ ConsumerTake \/ HttpOk \/ HttpFail \/ SleepWake
SpecS3 == InitS3 /\ [][NextS3]_vars

\* An Index over an S3Destination, with its uploader and another writer; the
\* HttpQueue is not entered, so the deque keeps every destination call
InitIndex == InitWith("s3", MaxIndexCalls, 0)
NextIndex ==
    \/ Start \/ Write \/ WriteFinal \/ SendPending \/ TimerFire \/ Tick
    \/ IndexWrite \/ Sync
SpecIndex == InitIndex /\ [][NextIndex]_vars

\* An LRUCache and its users
InitCache == InitPipeline("local", 0, 0) /\ InitApi(1..MaxItems, 1, MaxCacheOps)
NextCache == CacheAdd \/ CacheGet
SpecCache == InitCache /\ [][NextCache]_vars

\* A GitHub client whose get calls are made one after the other
InitGitHub == InitPipeline("local", 0, 0) /\ InitApi({DefaultMaxItems}, 1, MaxGets)
NextGitHub == GetBegin \/ GetEnd \/ GetError
SpecGitHub == InitGitHub /\ [][NextGitHub]_vars

\* A GitHub client with up to two get calls awaiting their responses at once
InitOverlap == InitPipeline("local", 0, 0) /\ InitApi({DefaultMaxItems}, 2, MaxOverlapGets)
NextOverlap == GetBegin \/ GetEnd \/ GetError
SpecOverlap == InitOverlap /\ [][NextOverlap]_vars

\* The HttpQueue with its producers, from construction to the end of its scope
InitQueue == InitWith("s3", 0, MaxEnqueue)
NextQueue ==
    \/ Post \/ S3Put \/ S3Delete \/ Request
    \/ AEnter \/ ConsumerTake \/ ConsumerStop \/ HttpOk \/ HttpFail \/ SleepWake
    \/ AExitBegin \/ AExitEnd \/ Tick
SpecQueue == InitQueue /\ [][NextQueue]_vars

\* The HttpQueue with its producers and a GitHub client posting statuses
NextStatus ==
    \/ Post \/ S3Put \/ S3Delete \/ Request
    \/ AEnter \/ ConsumerTake \/ ConsumerStop \/ HttpOk \/ HttpFail \/ SleepWake
    \/ AExitBegin \/ AExitEnd \/ Tick
    \/ GitHubPost \/ GitHubPostDone
SpecStatus == InitQueue /\ [][NextStatus]_vars

\* The same, with the event loop resuming `await self._task` once the task is done
SpecQueueLive == SpecQueue /\ WF_vars(AExitEnd)

----------------------------------------------------------------------------
(* What the uploader has accepted *)

\* The UTF-8-normalised bytes accepted so far: the text given to start, then
\* the whole input of the write calls decoded in one piece and encoded again.
Accepted ==
    (IF started = <<>> THEN <<>> ELSE Encode(started[1]))
    \o Encode(Decode(rawInput, phase = "final").out)

RECURSIVE SliceFrom(_, _, _, _)
SliceFrom(s, off, lo, hi) ==
    IF s = <<>> THEN <<>>
    ELSE LET n == AtomLen(Head(s)) IN
         (IF lo <= off /\ off + n <= hi THEN <<Head(s)>> ELSE <<>>)
         \o SliceFrom(Tail(s), off + n, lo, hi)

\* the bytes [lo, hi) of s
Slice(s, lo, hi) == SliceFrom(s, 0, lo, hi)

\* the blocks of all chunks, in list order
Blocks(cs) == Join(cs)

ManifestName == Suffixed(ChunksSuffix)
IsAuxiliary(n) == n.file = "log" /\ n.kind \in {"chunks", "range"}

----------------------------------------------------------------------------
(* C1 *)

\* C1: between uploader operations before finalization, the blocks of all
\* chunks in list order followed by pending are exactly the accepted bytes.
C1_Concatenation ==
    phase # "final" => Join(Blocks(chunks)) \o pending = Accepted

\* a merge has happened, a later chunk exists and bytes are pending
C1_Witness ==
    /\ phase = "running" /\ started # <<>> /\ started[1] # <<>>
    /\ Len(chunks) >= 2 /\ Len(chunks[1]) >= 2
    /\ pending # <<>>
    /\ Join(Blocks(chunks)) # <<>>

----------------------------------------------------------------------------
(* C5 *)

\* C5: after every send_pending, no chunk that is followed by the last chunk
\* has as many blocks as the last chunk.
C5_LastTwoDiffer ==
    \A i \in 1..(Len(chunks) - 1) :
        Len(chunks[i]) # Len(chunks[i + 1]) \/ i + 1 # Len(chunks)

\* five flushes: a chunk of four blocks followed by a chunk of one
C5_Witness ==
    Len(chunks) = 2 /\ Len(chunks[1]) = 4 /\ Len(chunks[2]) = 1

----------------------------------------------------------------------------
(* C6 *)

\* k writes of 600000 bytes on an uploader that was not started, each one
\* followed by a flush
FourWrites(k) ==
    /\ phase = "running"
    /\ started = <<>>
    /\ pending = <<>>
    /\ rawInput = Join([i \in 1..k |-> BigBlock])
    /\ Blocks(chunks) = [i \in 1..k |-> BigBlock]

\* C6 as stated: the chunk list is [[b1],[b2]], then [[b1],[b2],[b3]], then
\* [[b1],[b2],[b3,b4]], and the manifest reads [600000,600000,1200000].
C6_Original ==
    /\ FourWrites(2) => chunks = <<<<BigBlock>>, <<BigBlock>>>>
    /\ FourWrites(3) => chunks = <<<<BigBlock>>, <<BigBlock>>, <<BigBlock>>>>
    /\ FourWrites(4) =>
         /\ chunks = <<<<BigBlock>>, <<BigBlock>>, <<BigBlock, BigBlock>>>>
         /\ store[ManifestName] = Json(<<600000, 600000, 1200000>>)

\* C6, amended: the chunk list is [[b1,b2]] after the second flush,
\* [[b1,b2],[b3]] after the third and [[b1,b2,b3,b4]] after the fourth, and
\* the manifest then reads [2400000].
C6_Amended ==
    /\ FourWrites(2) => chunks = <<<<BigBlock, BigBlock>>>>
    /\ FourWrites(3) => chunks = <<<<BigBlock, BigBlock>>, <<BigBlock>>>>
    /\ FourWrites(4) =>
         /\ chunks = <<<<BigBlock, BigBlock, BigBlock, BigBlock>>>>
         /\ store[ManifestName] = Json(<<2400000>>)

C6_Witness == FourWrites(4) /\ ManifestName \in DOMAIN store

----------------------------------------------------------------------------
(* C2 *)

\* every range the manifest of st implies is in st with the accepted bytes
ManifestConsistent(st) ==
    ManifestName \in DOMAIN st =>
        LET sizes == st[ManifestName].val IN
        \A i \in 1..Len(sizes) :
            LET lo == SumSeq(SubSeq(sizes, 1, i - 1))
                hi == lo + sizes[i]
                n == Suffixed(RangeSuffix(lo, hi))
            IN  /\ n \in DOMAIN st
                /\ st[n] = Bytes(Slice(Accepted, lo, hi))
                /\ ByteLen(st[n].val) = hi - lo

ManifestTotal(st) == SumSeq(st[ManifestName].val)

\* C2: as long as the final object is not in the destination, whenever the
\* manifest is there every range it implies is there with exactly those
\* bytes of the accepted stream; and the length the manifest describes never
\* decreases from one request to the next.
C2_ManifestPrefix ==
    /\ [](LogName \notin DOMAIN store => ManifestConsistent(store))
    /\ [][(ManifestName \in DOMAIN store /\ ManifestName \in DOMAIN store')
            => ManifestTotal(store') >= ManifestTotal(store)]_vars

\* the consumer has put a manifest of two chunks and is behind the uploader,
\* which has already finalized
C2_Witness ==
    /\ LogName \notin DOMAIN store
    /\ ManifestName \in DOMAIN store
    /\ Len(store[ManifestName].val) = 2
    /\ store[ManifestName].val[2] > 0
    /\ phase = "final"

----------------------------------------------------------------------------
(* C3 *)

\* C3: after write(final=True), once every request has been served, the
\* final object holds exactly the accepted bytes and none of the auxiliary
\* artifacts ever stored is left.
C3_Finalized ==
    (phase = "final" /\ queue = <<>>) =>
        /\ LogName \in DOMAIN store
        /\ store[LogName] = Bytes(Accepted)
        /\ \A n \in DOMAIN store \cup seen : IsAuxiliary(n) => n \notin DOMAIN store

\* finalization with a superseded range artifact and bytes that were pending
C3_Witness ==
    /\ phase = "final" /\ queue = <<>>
    /\ Cardinality({n \in seen : IsAuxiliary(n)}) >= 4
    /\ Len(chunks) = 2
    /\ pending # <<>>

----------------------------------------------------------------------------
(* C4 *)

IsFinalPut(r) == r.method = "PUT" /\ r.url = LogName

\* C4: the final object is put at most once; nothing is issued before it
\* that deletes and nothing after it that writes; and whenever an auxiliary
\* artifact that was stored is gone, the final object is there, complete.
C4_FinalBeforeDeletes ==
    /\ Cardinality({i \in 1..Len(issued) : IsFinalPut(issued[i])}) <= 1
    /\ \A i, j \in 1..Len(issued) :
         /\ (i < j /\ IsFinalPut(issued[i])) => issued[j].method = "DELETE"
         /\ (i < j /\ issued[i].method = "DELETE") => issued[j].method = "DELETE"
         /\ issued[j].method = "DELETE" => \E k \in 1..(j - 1) : IsFinalPut(issued[k])
    /\ (\E n \in seen : IsAuxiliary(n) /\ n \notin DOMAIN store) =>
         /\ LogName \in DOMAIN store
         /\ store[LogName] = Bytes(Accepted)

\* in the middle of the deletes: a range is gone, the manifest is still there
C4_Witness ==
    /\ \E n \in seen : n.kind = "range" /\ n \notin DOMAIN store
    /\ ManifestName \in DOMAIN store
    /\ task = "sleep"

----------------------------------------------------------------------------
(* C7 *)

\* C7: the HTTP calls are started in the order in which the requests were
\* enqueued, each request at most once.
C7_Fifo ==
    \A i, j \in 1..Len(issued) : i < j => issued[i].id < issued[j].id

\* three calls started, the last one for a request enqueued while an earlier
\* call was in flight
C7_Witness ==
    /\ Len(issued) = 3
    /\ task = "http"
    /\ Len(queue) = 1

----------------------------------------------------------------------------
(* C8 *)

\* C8: when the scope exit completes, the queue is empty and every request
\* that was in the queue when the exit began has been issued exactly once.
C8_DrainedOnExit ==
    [][(scope = "exiting" /\ scope' = "exited") =>
         /\ queue' = <<>>
         /\ \A id \in atExit :
              Cardinality({i \in 1..Len(issued') : issued'[i].id = id}) = 1]_vars

----------------------------------------------------------------------------
(* C9 *)

\* C9: at most one HTTP call is in flight, and a call is started only when
\* every earlier call has been answered and a full second has passed since.
C9_Paced ==
    /\ [](Len(issued) - responded \in {0, 1})
    /\ [][(Len(issued') > Len(issued) /\ Len(issued) > 0)
            => (responded = Len(issued) /\ elapsed >= 1)]_vars

\* a second call is in flight, after the first was answered and slept over
C9_Witness ==
    /\ Len(issued) = 2 /\ responded = 1 /\ task = "http" /\ elapsed = 1

----------------------------------------------------------------------------
(* C10 *)

\* C10: while a call is in flight and during the sleep after it, its request
\* is the head of the queue; the queue only loses its head, only when the
\* sleep is over, and that head is the request that was issued.
C10_HeadWhileInFlight ==
    /\ [](task \in {"http", "sleep"} => (queue # <<>> /\ queue[1] = cur[1]))
    /\ [][Len(queue') < Len(queue)
            => /\ task = "sleep" /\ sleepLeft = 0
               /\ queue[1] = cur[1] /\ queue' = Tail(queue)
               /\ task' = "next"]_vars

\* the sleep is over and producers have enqueued two more requests meanwhile
C10_Witness ==
    /\ task = "sleep" /\ sleepLeft = 0
    /\ Len(queue) = 3 /\ queue[1] = cur[1]
    /\ Len(issued) = 1

----------------------------------------------------------------------------
(* C11 *)

\* C11: once the HTTP call of a request has failed, the consumer is over: no
\* HTTP call is started any more (neither for that request again nor for one
\* queued behind it, whenever it was enqueued), the scope exit never
\* completes normally, and a scope exit that has begun ends by raising.
C11_FailureIsFatal ==
    /\ [][errors > 0 => (task' = "failed" /\ issued' = issued)]_vars
    /\ [](errors > 0 => (task = "failed" /\ scope # "exited"))
    /\ (scope = "exiting" /\ errors > 0) ~> (scope = "raised")

\* the first call failed with two requests queued behind it, one of them
\* enqueued after the exit began, and the exit has raised
C11_Witness ==
    /\ errors = 1 /\ scope = "raised"
    /\ Len(issued) = 1 /\ Len(queue) = 3 /\ queue[1] = cur[1]
    /\ Cardinality(atExit) = 2

----------------------------------------------------------------------------
(* C12 *)

\* C12: once the scope exit has begun the queue takes no new item, and when
\* the exit has completed no request is left in the queue.
C12_ClosedAfterEof ==
    /\ [][eof => Len(queue') <= Len(queue)]_vars
    /\ [](scope = "exited" => queue = <<>>)

----------------------------------------------------------------------------
(* C19 *)

\* C19: between operations the readiness flag is set exactly when the queue
\* is non-empty or end-of-stream was signalled; a consumer in next() can go
\* on exactly then; and when next() returns it leaves the queue as it is
\* and returns the head if there is one, none only at end-of-stream with an
\* empty queue.
C19_NextAndFlag ==
    /\ [](nonempty <=> (queue # <<>> \/ eof))
    /\ []((task = "next" /\ queue # <<>>) => (ENABLED ConsumerTake /\ ~ENABLED ConsumerStop))
    /\ []((task = "next" /\ queue = <<>> /\ eof) => (ENABLED ConsumerStop /\ ~ENABLED ConsumerTake))
    /\ []((task = "next" /\ queue = <<>> /\ ~eof) => (~ENABLED ConsumerTake /\ ~ENABLED ConsumerStop))
    /\ [][(task = "next" /\ task' # "next") =>
            /\ queue' = queue
            /\ IF queue # <<>> THEN task' = "http" /\ cur' = <<queue[1]>>
                              ELSE task' = "finished" /\ eof]_vars

\* three requests were put, taken and done, end-of-stream was signalled and
\* next() has returned none
C19_Witness ==
    /\ task = "finished" /\ eof /\ queue = <<>> /\ nonempty
    /\ Len(issued) = 3 /\ responded = 3

----------------------------------------------------------------------------
(* C16 *)

\* C16 as stated: every chunk that is not the last one is still there,
\* unchanged and at its place, after any step.
C16_Original ==
    [][\A i \in 1..(Len(chunks) - 1) :
           i <= Len(chunks') /\ chunks'[i] = chunks[i]]_vars

\* C16, amended: a flush changes the chunk list only at its tail.  It keeps
\* the first k chunks as they are, for some k, and replaces all the others
\* (none, the last one, or several when merges cascade) and the new block
\* by one last chunk, their concatenation in list order.
C16_Amended ==
    [][chunks' # chunks =>
         \E k \in 0..Len(chunks) :
            /\ Len(chunks') = k + 1
            /\ SubSeq(chunks', 1, k) = SubSeq(chunks, 1, k)
            /\ LET last == chunks'[k + 1] IN
               last = Join(SubSeq(chunks, k + 1, Len(chunks))) \o <<last[Len(last)]>>]_vars

\* the fourth flush has absorbed the chunk [b1, b2], which was not the last
\* one, into a chunk of four different blocks
C16_Witness ==
    /\ Len(chunks) = 1 /\ Len(chunks[1]) = 4
    /\ chunks[1][1] # chunks[1][2] /\ chunks[1][3] # chunks[1][4]

----------------------------------------------------------------------------
(* C17 *)

\* C17: the event loop holds at most one flush timer of the uploader, and
\* holds one exactly when self.timer is set; a timer is set only while bytes
\* are pending and never after finalization; a non-final write that finds a
\* timer set and does not flush leaves it as it is; every flush leaves no
\* timer; and after finalization nothing is flushed or written any more.
C17_OneTimer ==
    /\ [](live \in {0, 1} /\ (live = 1 <=> timer # <<>>))
    /\ [](timer # <<>> => (pending # <<>> /\ phase = "running"))
    /\ [](phase = "final" => (timer = <<>> /\ live = 0))
    /\ [][(timer # <<>> /\ rawInput' # rawInput /\ chunks' = chunks /\ phase' # "final")
            => (timer' = timer /\ live' = live)]_vars
    /\ [][chunks' # chunks => (timer' = <<>> /\ live' = 0)]_vars
    /\ [][phase = "final" => (chunks' = chunks /\ store' = store)]_vars

\* a second write has arrived while the timer set by the first was already
\* due, and the timer is still the same
C17_Witness ==
    /\ timer = <<0>> /\ live = 1
    /\ rawInput = <<-1, 169>>
    /\ pending = <<-1, 239, 191, 189>>

----------------------------------------------------------------------------
(* C18 *)

\* the range artifact of every chunk is in st with the bytes of the chunk
ChunksWritten(st) ==
    \A i \in 1..Len(chunks) :
        LET n == Suffixed(LastChunkSuffix(SubSeq(chunks, 1, i))) IN
        n \in DOMAIN st /\ st[n] = Bytes(Join(chunks[i]))

\* C18: before finalization, between operations, pending is empty or it is
\* at most SIZE_LIMIT bytes long with a flush timer set; the bytes that have
\* left pending are in range artifacts, or in the final object after
\* finalization; and pending bytes do not stay pending for ever.
C18_PendingFlushed ==
    /\ [](phase # "final" =>
            (pending = <<>> \/ (ByteLen(pending) <= SIZE_LIMIT /\ timer # <<>>)))
    /\ [](phase # "final" => ChunksWritten(store))
    /\ [](phase = "final" => (LogName \in DOMAIN store /\ store[LogName] = Bytes(Accepted)))
    /\ (pending # <<>>) ~> (pending = <<>> \/ phase = "final")

\* the timer has fired and flushed the bytes of two writes into a range
\* artifact
C18_Witness ==
    /\ phase = "running" /\ pending = <<>> /\ timer = <<>>
    /\ callsLeft = MaxCalls - 2
    /\ rawInput = <<-1, 169>>
    /\ chunks = <<<<<<-1, 239, 191, 189>>>>>>
    /\ ChunksWritten(store)

----------------------------------------------------------------------------
(* C20 *)

\* the names the destination was asked to write, in call order
PutNames == [i \in 1..Len(queue) |-> IF queue[i].method = "PUT" THEN <<queue[i].url>> ELSE <<>>]

\* the index pages written so far, in call order
Pages == Join([i \in 1..Len(queue) |->
                 IF queue[i].method = "PUT" /\ queue[i].url = IndexName
                 THEN <<queue[i].data>> ELSE <<>>])

\* Index.has
Has(n) == n \in files

\* C20: has() is true exactly of the names written that are neither an
\* artifact of the uploader nor the index page; the file set never shrinks;
\* a write of such a name leaves the Index dirty; while the Index is not
\* dirty the last index page written lists exactly the file set, sorted as
\* str, and no index page is written.
C20_IndexTracksWrites ==
    /\ [](\A n \in {FileName(f) : f \in IndexFiles \cup AssetFiles} \cup {LogName, IndexName, ManifestName}
              \cup {Suffixed(x) : x \in suffixes} :
            Has(n) <=> (/\ <<n>> \in {PutNames[i] : i \in 1..Len(queue)}
                        /\ ~IsAuxiliary(n) /\ n # IndexName))
    /\ [](\A n \in files : ~IsAuxiliary(n) /\ n # IndexName)
    /\ [][files \subseteq files']_vars
    /\ [][(Len(queue') > Len(queue) /\ \E i \in (Len(queue) + 1)..Len(queue') :
              queue'[i].method = "PUT" /\ ~IsAuxiliary(queue'[i].url) /\ queue'[i].url # IndexName)
            => dirty']_vars
    /\ [](~dirty =>
            /\ Pages # <<>>
            /\ LET p == Pages[Len(Pages)].val IN
               /\ Pages[Len(Pages)].type = "html"
               /\ {p[i] : i \in 1..Len(p)} = files
               /\ \A i, j \in 1..Len(p) :
                     i < j => LexLess(FileChars(p[i].file), FileChars(p[j].file)))
    /\ [][~dirty => Pages' = Pages]_vars

\* after three files were written through the Index (an attachment, the
\* bundled page and the final log) the page was written, with ranges and
\* the manifest written around the Index
C20_Witness ==
    /\ ~dirty /\ Cardinality(files) = 3 /\ phase = "final"
    /\ \E i \in 1..Len(queue) : queue[i].method = "PUT" /\ IsAuxiliary(queue[i].url)

----------------------------------------------------------------------------
(* C13 *)

\* the place in h of the last add of k, 0 if there is none
LastAdd(h, k) ==
    LET at == {i \in 1..Len(h) : h[i].op = "add" /\ h[i].key = k}
    IN  IF at = {} THEN 0 ELSE CHOOSE i \in at : \A j \in at : j <= i

\* this step is a call of op on the cache
CacheStep(op) ==
    Len(history') = Len(history) + 1 /\ history'[Len(history')].op = op

\* C13: the cache never holds more than max_items items and iterates its
\* keys in the order of their last add; right after add(k, v) the newest
\* item is k bound to v, the other items that are left are bound as before,
\* no more items than necessary are gone, and every key that is gone was
\* last added before every other key that is left, whatever was read; get
\* returns the value bound to the key and changes nothing.
C13_Lru ==
    /\ [](Len(cache) <= max_items /\ Cardinality(Keys(cache)) = Len(cache))
    /\ [](\A i, j \in 1..Len(cache) :
             i < j => LastAdd(history, cache[i].key) < LastAdd(history, cache[j].key))
    /\ [][CacheStep("add") =>
            LET a == history'[Len(history')] IN
            /\ cache'[Len(cache')] = Item(a.key, a.value[1])
            /\ \A i \in 1..(Len(cache') - 1) : Lookup(cache, cache'[i].key) = <<cache'[i].value>>
            /\ Len(cache') = Min(max_items, Cardinality(Keys(cache) \cup {a.key}))
            /\ \A gone \in Keys(cache) \ Keys(cache'), left \in Keys(cache') \ {a.key} :
                  LastAdd(history, gone) < LastAdd(history, left)]_vars
    /\ [][CacheStep("get") =>
            LET g == history'[Len(history')] IN
            /\ cache' = cache
            /\ g.value = Lookup(cache, g.key)
            /\ (g.value # <<>> <=> g.key \in Keys(cache))]_vars

\* with room for two, k1 and k2 were added, k1 was read, and adding k3 has
\* evicted k1 all the same
C13_Witness ==
    /\ max_items = 2 /\ Len(history) = 4
    /\ history[1] = [op |-> "add", key |-> "k1", value |-> <<"v1">>]
    /\ history[2].op = "add" /\ history[2].key = "k2"
    /\ history[3] = [op |-> "get", key |-> "k1", value |-> <<"v1">>]
    /\ history[4].op = "add" /\ history[4].key = "k3"
    /\ Keys(cache) = {"k2", "k3"}

----------------------------------------------------------------------------
(* C14 *)

\* the validators of a response: its ETag and its Last-Modified, if it has
\* them, under the names of the request headers they are sent back in
Validators(headers) ==
    [c \in (IF "etag" \in DOMAIN headers THEN {"if-none-match"} ELSE {})
           \cup (IF "last-modified" \in DOMAIN headers THEN {"if-modified-since"} ELSE {}) |->
        IF c = "if-none-match" THEN headers["etag"] ELSE headers["last-modified"]]

\* C14: when a get returns, with e the cache entry of its key before: on a
\* 304 with an entry e, it returns the value of e without reducing and e
\* itself becomes the newest item of the cache; on a 2xx it returns the
\* reducer's value of the body and the entry of the key becomes that value
\* with the validators of this response only, as the newest item; otherwise
\* it returns none and the cache is as before.  Items of other keys stay.
C14_ConditionalGet ==
    [][Len(returned') > Len(returned) =>
         LET r == returned'[Len(returned')]
             e == Lookup(cache, r.key)
             others == DictPop(cache, r.key)
         IN  IF e # <<>> /\ r.response.status = 304
             THEN /\ r.result = <<e[1].value>> /\ ~r.reduced
                  /\ cache' = Append(others, Item(r.key, e[1]))
             ELSE IF r.response.status \in 200..299
             THEN /\ r.result = <<Apply(r.key[2], r.response.body)>> /\ r.reduced
                  /\ cache' = Append(others,
                        Item(r.key, [conditions |-> Validators(r.response.headers),
                                     value |-> r.result[1]]))
             ELSE /\ r.result = <<>> /\ ~r.reduced
                  /\ cache' = cache]_vars

\* the first key was fetched with ETag and Last-Modified, then the second
\* key, then a 304 for the first key has made its entry the newest item
C14_Witness ==
    /\ Len(returned) = 3 /\ Len(cache) = 2
    /\ returned[1].response.status = 200 /\ returned[2].response.status = 201
    /\ returned[3].response.status = 304
    /\ returned[3].key = returned[1].key /\ returned[3].key # returned[2].key
    /\ returned[3].result = returned[1].result
    /\ cache[2].key = returned[1].key
    /\ DOMAIN cache[2].value.conditions = {"if-none-match", "if-modified-since"}

----------------------------------------------------------------------------
(* C15 *)

\* C15: the client has no HTTP call of its own in flight, and every HTTP
\* call is started by the queue consumer, for the request at the head of the
\* queue, once the calls before it were answered and a second has passed.
C15_PostQueued ==
    /\ [](posting = 0)
    /\ [][Len(issued') > Len(issued) =>
            /\ task = "next" /\ task' = "http"
            /\ queue # <<>> /\ issued' = Append(issued, queue[1])
            /\ (Len(issued) > 0 => elapsed >= 1)]_vars

----------------------------------------------------------------------------
(* C21 *)

\* the i-th and the j-th processed response belong to two get calls of one
\* key that overlapped: the later one had looked up the cache before the
\* response of the earlier one was processed
Overlapped(i, j) ==
    /\ i < j
    /\ returned[i].key = returned[j].key
    /\ returned[j].began < i

\* C21: right after the second of two overlapping get calls of one key that
\* both got a 2xx response has completed, the cache holds exactly one item of
\* that key, it is the entry made from the response processed last, and the
\* cache has no more than max_items items.
C21_SecondInsertionWins ==
    \A i, j \in 1..Len(returned) :
        (/\ j = Len(returned) /\ Overlapped(i, j)
         /\ returned[i].response.status \in 200..299
         /\ returned[j].response.status \in 200..299)
        => LET r == returned[j] IN
           /\ Cardinality({n \in 1..Len(cache) : cache[n].key = r.key}) = 1
           /\ Lookup(cache, r.key) =
                  <<[conditions |-> Validators(r.response.headers),
                     value |-> Apply(r.key[2], r.response.body)]>>
           /\ Len(cache) <= max_items

\* two get calls of one key both missed the cache, got 2xx responses with
\* different bodies and validators, and both have completed
C21_Witness ==
    /\ Len(returned) = 2 /\ getting = <<>>
    /\ Overlapped(1, 2) /\ returned[1].began = 0
    /\ returned[1].response.status = 200 /\ returned[2].response.status = 201
    /\ returned[1].result # returned[2].result
    /\ returned[1].response.headers # returned[2].response.headers
    /\ Len(cache) = 1 /\ cache[1].value.value = returned[2].result[1]

----------------------------------------------------------------------------
(* C22 *)

\* the number of blocks of each chunk, in list order
BlockCounts(cs) == [i \in 1..Len(cs) |-> Len(cs[i])]

\* n is a power of two
IsPowerOfTwo(n) == \E e \in 0..n : 2 ^ e = n

RECURSIVE BitCount(_)
\* the number of 1-bits of n
BitCount(n) == IF n = 0 THEN 0 ELSE (n % 2) + BitCount(n \div 2)

\* C22: after n >= 1 send_pending calls on a new uploader, the block counts
\* of the chunks, in list order, are powers of two, strictly decreasing, with
\* sum n; the chunk list, and the manifest while it exists, have as many
\* items as n has 1-bits, which is one when n is a power of two.
C22_BinaryCounter ==
    flushes >= 1 =>
        LET counts == BlockCounts(chunks) IN
        /\ \A i \in 1..Len(counts) : IsPowerOfTwo(counts[i])
        /\ \A i \in 1..(Len(counts) - 1) : counts[i] > counts[i + 1]
        /\ SumSeq(counts) = flushes
        /\ Len(chunks) = BitCount(flushes)
        /\ (phase # "final" => Len(store[ManifestName].val) = BitCount(flushes))
        /\ (IsPowerOfTwo(flushes) => Len(chunks) = 1)

\* five send_pending calls, one of them with nothing pending and one with
\* 600000 bytes, have left a chunk of four blocks and a chunk of one
C22_Witness ==
    /\ flushes = 5 /\ phase = "running"
    /\ BlockCounts(chunks) = <<4, 1>>
    /\ \E i \in 1..4 : chunks[1][i] = <<>>
    /\ \E i \in 1..4 : chunks[1][i] = BigBlock
    /\ Len(store[ManifestName].val) = 2
====
